---------------------------- MODULE Spec2Model ----------------------------
(***************************************************************************)
(* The Biddle model sweep tool (src/biddle3.py): main() reads one value    *)
(* list per input variable, enumerates their cartesian product and runs    *)
(* simulate_one_scenario on every combination: parameter derivation, then  *)
(* the day loop, then the final outcome.                                    *)
(*                                                                         *)
(* Numbers.  A Python float is modelled by an exact rational <<n, d>> in   *)
(* lowest terms with d > 0, or by one of the three non-finite values       *)
(* Inf = <<1, 0>>, NegInf = <<-1, 0>>, NaN = <<0, 0>>, with the IEEE rules *)
(* the code relies on (inf * 0 = nan, every comparison with nan false).    *)
(* Rounding error of binary floating point is not modelled.                *)
(*                                                                         *)
(* EPSILON.  TLC's integers are 32 bits wide, so the source's 1e-9 cannot  *)
(* be carried through products with the inputs.  The model keeps EPSILON   *)
(* as the positive rational 1/EpsInv; EpsInv is a bound of the model, and  *)
(* degenerate inputs are written relative to EPSILON (EPSILON/2, 0, <0).   *)
(***************************************************************************)
EXTENDS Integers, Sequences, FiniteSets, TLC

----------------------------------------------------------------------------
(* Bounds of the model *)

EpsInv == 100

----------------------------------------------------------------------------
(* Rational arithmetic with IEEE non-finite values *)

Abs(x) == IF x < 0 THEN -x ELSE x

RECURSIVE Gcd(_, _)
Gcd(a, b) == IF b = 0 THEN a ELSE Gcd(b, a % b)

\* <<n, d>> brought to lowest terms, d > 0.
Norm(n, d) ==
    LET s == IF d < 0 THEN -1 ELSE 1
        g == Gcd(Abs(n), Abs(d))
    IN  <<(s * n) \div g, (s * d) \div g>>

Inf == <<1, 0>>
NegInf == <<-1, 0>>
NaN == <<0, 0>>

IsFinite(x) == x[2] > 0
IsNaN(x) == x = NaN
Sign(x) == IF x[1] > 0 THEN 1 ELSE IF x[1] < 0 THEN -1 ELSE 0

Q(k) == <<k, 1>>
Frac(n, d) == Norm(n, d)
Zero == <<0, 1>>
One == <<1, 1>>

Neg(x) == <<-x[1], x[2]>>

Add(x, y) ==
    IF IsNaN(x) \/ IsNaN(y) THEN NaN
    ELSE IF ~IsFinite(x) /\ ~IsFinite(y) THEN (IF x = y THEN x ELSE NaN)
    ELSE IF ~IsFinite(x) THEN x
    ELSE IF ~IsFinite(y) THEN y
    ELSE LET g == Gcd(x[2], y[2])
         IN  Norm(x[1] * (y[2] \div g) + y[1] * (x[2] \div g), (x[2] \div g) * y[2])

Sub(x, y) == Add(x, Neg(y))

Mul(x, y) ==
    IF IsNaN(x) \/ IsNaN(y) THEN NaN
    ELSE IF ~IsFinite(x) \/ ~IsFinite(y)
         THEN (IF Sign(x) * Sign(y) > 0 THEN Inf
               ELSE IF Sign(x) * Sign(y) < 0 THEN NegInf ELSE NaN)
    ELSE LET g1 == Gcd(Abs(x[1]), y[2])
             g2 == Gcd(Abs(y[1]), x[2])
         IN  Norm((x[1] \div g1) * (y[1] \div g2), (x[2] \div g2) * (y[2] \div g1))

\* x / y for finite x and finite y # 0 (every division of the code is guarded).
Div(x, y) == Mul(x, IF y[1] < 0 THEN <<-y[2], -y[1]>> ELSE <<y[2], y[1]>>)

\* Order of a/b and c/d for a, c >= 0 and b, d > 0, by continued fractions
\* (no cross product, so no overflow): -1, 0 or 1.
RECURSIVE CmpPos(_, _, _, _)
CmpPos(a, b, c, d) ==
    LET qa == a \div b
        qc == c \div d
        ra == a % b
        rc == c % d
    IN  IF qa # qc THEN (IF qa < qc THEN -1 ELSE 1)
        ELSE IF ra = 0 /\ rc = 0 THEN 0
        ELSE IF ra = 0 THEN -1
        ELSE IF rc = 0 THEN 1
        ELSE CmpPos(d, rc, b, ra)

\* Order of two values other than NaN.
Cmp(x, y) ==
    IF ~IsFinite(x) \/ ~IsFinite(y)
    THEN (IF x = y THEN 0
          ELSE IF x = NegInf \/ y = Inf THEN -1 ELSE 1)
    ELSE IF Sign(x) # Sign(y) THEN (IF Sign(x) < Sign(y) THEN -1 ELSE 1)
    ELSE IF Sign(x) >= 0 THEN CmpPos(x[1], x[2], y[1], y[2])
    ELSE CmpPos(-y[1], y[2], -x[1], x[2])

Lt(x, y) == ~IsNaN(x) /\ ~IsNaN(y) /\ Cmp(x, y) < 0
Le(x, y) == ~IsNaN(x) /\ ~IsNaN(y) /\ Cmp(x, y) <= 0
Gt(x, y) == Lt(y, x)
Ge(x, y) == Le(y, x)
Eq(x, y) == ~IsNaN(x) /\ ~IsNaN(y) /\ x = y

\* Python's min and max on two floats (the first argument wins a tie or a nan).
Max2(x, y) == IF Gt(y, x) THEN y ELSE x
Min2(x, y) == IF Lt(y, x) THEN y ELSE x


\* math.pow(x, e) for a finite x >= 0 and an integer-valued exponent e.
\* Python raises ValueError (math domain error) for pow(0, negative).
RECURSIVE PowNat(_, _)
PowNat(x, k) == IF k = 0 THEN One ELSE Mul(x, PowNat(x, k - 1))

PowRaises(x, e) == x = Zero /\ e[1] < 0

Pow(x, e) == IF e[1] >= 0 THEN PowNat(x, e[1]) ELSE Div(One, PowNat(x, -e[1]))

\* Floor of a finite value.
Floor(x) == x[1] \div x[2]

\* The value an f-string "{x:.kf}" prints (scale = 10^k), as a number:
\* round half to even on the exact value; inf and nan print as themselves.
FormatFixed(x, scale) ==
    IF ~IsFinite(x) \/ scale % x[2] = 0 THEN x
    ELSE LET a == Abs(x[1])
             g == Gcd(scale, x[2])
             den == x[2] \div g
             num == (a % x[2]) * (scale \div g)
             whole == (a \div x[2]) * scale + num \div den
             rest == num % den
             up == \/ 2 * rest > den
                   \/ (2 * rest = den /\ whole % 2 = 1)
             m == IF up THEN whole + 1 ELSE whole
         IN  Norm(Sign(x) * m, scale)

Fmt0(x) == FormatFixed(x, 1)
Fmt2(x) == FormatFixed(x, 100)

----------------------------------------------------------------------------
(* Program constants *)

EPSILON == <<1, EpsInv>>

MAX_SIMULATION_DAYS == 1000

\* variable_names_in_order: the keys of input_variable_definitions.
VariableNames ==
    << "R_in", "B_in", "YR_in", "YB_in", "d_in", "fr_in", "fe_in", "Vr_in",
       "Va_in", "wa_in", "wth_in", "k1_in", "k2_in", "k3_in", "k4_in",
       "k5_in", "k6_in", "k7_in", "k8_in", "k9_in" >>

NumVariables == Len(VariableNames)

----------------------------------------------------------------------------
(* Parameter derivation: simulate_one_scenario, "Initial Static Calculations" *)

NormalizeWth(wth_in) == IF Le(wth_in, EPSILON) THEN EPSILON ELSE wth_in

NormalizeD(d_in) == IF Le(d_in, Zero) THEN EPSILON ELSE d_in

TechIndex(year) ==
    IF Ge(year, Q(1900)) THEN Div(Sub(year, Q(1900)), Q(10)) ELSE Zero

\* TC = TB^2 / (TR + eps); T_rho is the same with the roles exchanged.
DyadicBalance(num, den) ==
    IF Gt(den, Neg(EPSILON))
    THEN Div(Mul(num, num), Add(den, EPSILON))
    ELSE Div(Mul(num, num), EPSILON)

SurvivalFraction(TR, k2, Vr) ==
    LET exp_ps == Mul(Neg(k2), Vr)
    IN  IF Le(TR, EPSILON) THEN Zero
        ELSE IF PowRaises(TR, exp_ps) THEN Zero
        ELSE Min2(Max2(Pow(TR, exp_ps), Zero), One)

HaltRatio(k1, fe) == Mul(k1, Sub(One, fe))

Rho1Raises(T_rho, k4) == Ge(T_rho, Zero) /\ PowRaises(T_rho, k4)

Rho1(T_rho, k4, k9, B, fr, Ps) ==
    LET rho1_denominator == IF Ge(T_rho, Zero) THEN Pow(T_rho, k4) ELSE NaN
        numerator == Mul(Mul(Mul(k9, B), fr), Ps)
    IN  IF IsNaN(rho1_denominator)
           \/ Lt(IF Lt(rho1_denominator, Zero) THEN Neg(rho1_denominator)
                 ELSE rho1_denominator, EPSILON)
        THEN (IF Gt(numerator, Zero) THEN Inf ELSE Zero)
        ELSE Div(numerator, rho1_denominator)

Rho2(k3, B, fr, wth) == Div(Mul(Mul(k3, B), Sub(One, fr)), wth)

R0Initial(R, rho2, wth, wa) == Sub(R, Mul(rho2, Sub(wth, wa)))

B0Initial(B, fr, wa, wth, d) == Div(Mul(Mul(B, Sub(One, fr)), wa), Mul(wth, d))

CaStatic(k7, fe, TC, b0, Va, k8) ==
    LET Ca == Mul(Mul(Mul(Mul(k7, Sub(One, fe)), TC), b0), Add(Va, k8))
    IN  IF Lt(Ca, Zero) THEN Zero ELSE Ca

DeltaRDailyRate(Ca, rho1, Va) ==
    LET rate == Add(Mul(Ca, Va), Mul(Mul(Q(2), rho1), Va))
    IN  IF Lt(rate, Zero) THEN Zero ELSE rate

\* The derivation raises exactly when math.pow(T_rho_calc, k4_in) does: that
\* call is outside any try block.
DerivationRaises(inp) ==
    LET TR == TechIndex(inp.YR_in)
        TB == TechIndex(inp.YB_in)
    IN  Rho1Raises(DyadicBalance(TR, TB), inp.k4_in)

DeriveParameters(inp) ==
    LET wth == NormalizeWth(inp.wth_in)
        d == NormalizeD(inp.d_in)
        TR == TechIndex(inp.YR_in)
        TB == TechIndex(inp.YB_in)
        TC == DyadicBalance(TB, TR)
        T_rho == DyadicBalance(TR, TB)
        Ps == SurvivalFraction(TR, inp.k2_in, inp.Vr_in)
        H == HaltRatio(inp.k1_in, inp.fe_in)
        rho1 == Rho1(T_rho, inp.k4_in, inp.k9_in, inp.B_in, inp.fr_in, Ps)
        rho2 == Rho2(inp.k3_in, inp.B_in, inp.fr_in, wth)
        r0 == R0Initial(inp.R_in, rho2, wth, inp.wa_in)
        b0 == B0Initial(inp.B_in, inp.fr_in, inp.wa_in, wth, d)
        Ca == CaStatic(inp.k7_in, inp.fe_in, TC, b0, inp.Va_in, inp.k8_in)
        delta_r == DeltaRDailyRate(Ca, rho1, inp.Va_in)
    IN  [ wth |-> wth, d |-> d, TR |-> TR, TB |-> TB, TC |-> TC,
          T_rho |-> T_rho, Ps |-> Ps, H |-> H, rho1 |-> rho1, rho2 |-> rho2,
          r0 |-> r0, b0 |-> b0, Ca |-> Ca, delta_r |-> delta_r ]

----------------------------------------------------------------------------
(* One iteration of the day loop of simulate_one_scenario *)

HaltConditionMetSOD(rt_sod, bt_sod, H) ==
    IF Le(rt_sod, Add(Mul(H, bt_sod), EPSILON)) \/ Lt(rt_sod, EPSILON)
    THEN 1 ELSE 0

StopsAtStartOfDay_IgnoresHalt(halt_sod, Va, dayno, delta_r) ==
    (Le(Va, EPSILON) /\ dayno > 0) \/ delta_r = Inf

\* The condition of the first branch: no advance today, the loop stops.
StopsAtStartOfDay(halt_sod, Va, dayno, delta_r) ==
    halt_sod = 1 \/ (Le(Va, EPSILON) /\ dayno > 0) \/ delta_r = Inf

HaltFlagAtStop(halt_flag, halt_sod, breakthrough_flag) ==
    IF halt_sod = 1 /\ breakthrough_flag = 0 THEN 1 ELSE halt_flag

TimeForReservesToArriveFully(wth, Vr) ==
    IF Gt(Vr, EPSILON) THEN Div(wth, Vr) ELSE Inf

ReservesStillArriving_CountsToday(dayno, wth, Vr) ==
    Lt(Q(dayno), TimeForReservesToArriveFully(wth, Vr))

ReservesStillArriving(dayno, wth, Vr) ==
    Lt(Q(dayno - 1), TimeForReservesToArriveFully(wth, Vr))

ReinforcementsTodaySurvived(dayno, inp, par) ==
    IF ReservesStillArriving(dayno, par.wth, inp.Vr_in)
    THEN Div(Mul(Mul(Mul(inp.B_in, inp.fr_in), inp.Vr_in), par.Ps), par.wth)
    ELSE Zero

DefCasReservesToday(dayno, inp, par) ==
    IF ReservesStillArriving(dayno, par.wth, inp.Vr_in) /\ Gt(inp.Vr_in, EPSILON)
    THEN LET reserve_attempt_rate ==
                 Div(Mul(Mul(inp.B_in, inp.fr_in), inp.Vr_in), par.wth)
             cas == Mul(reserve_attempt_rate, Sub(One, par.Ps))
         IN  IF Lt(cas, Zero) THEN Zero ELSE cas
    ELSE Zero

KmGainedToday(Va) == Va

InvCasPoaToday_IgnoresDistance(Ca, km) == Ca

InvCasPoaToday(Ca, km) ==
    LET c == Mul(Ca, km) IN IF Lt(c, Zero) THEN Zero ELSE c

DefCasPoaToday_NoFloor(b0, km) == Mul(b0, km)

DefCasPoaToday(b0, km) ==
    LET c == Mul(b0, km) IN IF Lt(c, Zero) THEN Zero ELSE c

RtEndOfDay(rt_sod, delta_r) ==
    LET r == Sub(rt_sod, delta_r) IN IF Lt(r, Zero) THEN Zero ELSE r

BtEndOfDay(bt_sod, reinforcements) == Add(bt_sod, reinforcements)

BreakthroughStatusEOD_HalfDepth(G, d) ==
    IF Ge(Add(G, G), Sub(d, EPSILON)) THEN 1 ELSE 0

BreakthroughStatusEOD(G, d) == IF Ge(G, Sub(d, EPSILON)) THEN 1 ELSE 0

HaltFlagAfterBreakthroughCheck_KeepsHalt(halt_flag, status_eod) == halt_flag

HaltFlagAfterBreakthroughCheck(halt_flag, status_eod) ==
    IF status_eod = 1 THEN 0 ELSE halt_flag

\* The locals of one iteration and the state it leaves, from the state s it
\* starts in (s.rt, s.bt, s.G, s.CR, s.CB, s.breakthrough, s.halt).
CurrentSimulationContinuesFlag_AlwaysOne(active) == 1

CurrentSimulationContinuesFlag(active) == IF active THEN 1 ELSE 0

DayBody(dayno, s, inp, par) ==
    LET rt_sod == s.rt
        bt_sod == s.bt
        halt_sod == HaltConditionMetSOD(rt_sod, bt_sod, par.H)
        stop == StopsAtStartOfDay(halt_sod, inp.Va_in, dayno, par.delta_r)
        reinf == IF stop THEN Zero ELSE ReinforcementsTodaySurvived(dayno, inp, par)
        res_cas == IF stop THEN Zero ELSE DefCasReservesToday(dayno, inp, par)
        km == IF stop THEN Zero ELSE KmGainedToday(inp.Va_in)
        G == IF stop THEN s.G ELSE Add(s.G, km)
        inv_cas == IF stop THEN Zero ELSE InvCasPoaToday(par.Ca, km)
        CR == IF stop THEN s.CR ELSE Add(s.CR, inv_cas)
        def_cas_poa == IF stop THEN Zero ELSE DefCasPoaToday(par.b0, km)
        rt_eod == IF stop THEN rt_sod ELSE RtEndOfDay(rt_sod, par.delta_r)
        bt_eod == IF stop THEN bt_sod ELSE BtEndOfDay(bt_sod, reinf)
        halt1 == IF stop THEN HaltFlagAtStop(s.halt, halt_sod, s.breakthrough)
                 ELSE s.halt
        def_cas_total == Add(def_cas_poa, res_cas)
        CB == Add(s.CB, def_cas_total)
        status_eod == BreakthroughStatusEOD(G, par.d)
        active == ~stop /\ status_eod = 0
    IN  [ rt_sod |-> rt_sod, bt_sod |-> bt_sod,
          halt_condition_met_sod |-> halt_sod,
          stopped_at_sod |-> stop,
          reinforcements_today_survived |-> reinf,
          def_cas_reserves_today |-> res_cas,
          km_gained_today |-> km,
          inv_cas_poa_today |-> inv_cas,
          def_cas_poa_today |-> def_cas_poa,
          def_cas_total_today |-> def_cas_total,
          rt_eod |-> rt_eod, bt_eod |-> bt_eod,
          rt |-> rt_eod, bt |-> bt_eod,
          G |-> G, CR |-> CR, CB |-> CB,
          current_breakthrough_status_eod |-> status_eod,
          breakthrough |-> IF status_eod = 1 THEN 1 ELSE s.breakthrough,
          halt |-> HaltFlagAfterBreakthroughCheck(halt1, status_eod),
          simulation_active |-> active,
          current_simulation_continues_flag |->
              CurrentSimulationContinuesFlag(active) ]

\* daily_row: the values the record's f-strings print.
DailyRow(sid, dayno, b, par) ==
    [ Scenario_ID |-> sid, Day |-> dayno,
      Ps_calc |-> FormatFixed(par.Ps, 10000), H_calc |-> Fmt2(par.H),
      rho1_calc |-> Fmt2(par.rho1), rho2_calc |-> Fmt2(par.rho2),
      Ca_static_calc |-> Fmt2(par.Ca),
      delta_r_daily_rate |-> Fmt2(par.delta_r),
      rt_SOD |-> Fmt0(b.rt_sod), bt_SOD |-> Fmt0(b.bt_sod),
      Reinforcements_Today_Survived |-> Fmt0(b.reinforcements_today_survived),
      Km_Gained_Today |-> Fmt2(b.km_gained_today),
      Km_Gained_Cumulative |-> Fmt2(b.G),
      Inv_Cas_POA_Today |-> Fmt0(b.inv_cas_poa_today),
      Inv_Cas_POA_Cumulative_OnAxis |-> Fmt0(b.CR),
      Def_Cas_POA_Today |-> Fmt0(b.def_cas_poa_today),
      Def_Cas_Reserves_Today |-> Fmt0(b.def_cas_reserves_today),
      Def_Cas_Total_Today |-> Fmt0(b.def_cas_total_today),
      Def_Cas_Cumulative_no_k6 |-> Fmt0(b.CB),
      rt_EOD |-> Fmt0(b.rt_eod), bt_EOD |-> Fmt0(b.bt_eod),
      Halt_Condition_Met_SOD |-> b.halt_condition_met_sod,
      Simulation_Continues_Next_Day |-> b.current_simulation_continues_flag ]

\* The halt flag after the loop: a halt is inferred at the day cap.
HaltFlagAtDayCap_NeverInfers(dayno, active, breakthrough_flag, halt_flag, rt, bt, H) ==
    halt_flag

HaltFlagAtDayCap(dayno, active, breakthrough_flag, halt_flag, rt, bt, H) ==
    IF /\ dayno = MAX_SIMULATION_DAYS /\ active
       /\ breakthrough_flag = 0 /\ halt_flag = 0
       /\ (Le(rt, Add(Mul(H, bt), EPSILON)) \/ Lt(rt, EPSILON))
    THEN 1 ELSE halt_flag

CampaignInvCasTotal_TwiceK5(CR, k5) == Add(Add(CR, k5), k5)

CampaignInvCasTotal(CR, k5) == Add(CR, k5)

CampaignDefCasTotal(CB, k6) == Add(CB, k6)

FinalOutcomes(sid, inp, final_day, G, CR, CB, breakthrough_flag, halt_flag) ==
    [ Scenario_ID |-> sid,
      inputs |-> inp,
      Final_Campaign_Duration_Days |-> final_day,
      Final_Km_Gained_Cumulative |-> Fmt2(G),
      Final_Inv_Cas_POA_Cumulative_OnAxis |-> Fmt0(CR),
      Final_Def_Cas_Cumulative_no_k6 |-> Fmt0(CB),
      Final_Campaign_Inv_Cas_Total |-> Fmt0(CampaignInvCasTotal(CR, inp.k5_in)),
      Final_Campaign_Def_Cas_Total |-> Fmt0(CampaignDefCasTotal(CB, inp.k6_in)),
      Breakthrough_Occurred |-> breakthrough_flag,
      Halt_Occurred |-> halt_flag ]

----------------------------------------------------------------------------
(* The sweep: get_variable_values_from_user, itertools.product, main *)

RECURSIVE float_range_NoTolerance(_, _, _)
float_range_NoTolerance(start, end, step) ==
    IF Gt(step, Zero)
    THEN (IF Le(start, end)
          THEN <<start>> \o float_range_NoTolerance(Add(start, step), end, step)
          ELSE << >>)
    ELSE (IF Ge(start, end)
          THEN <<start>> \o float_range_NoTolerance(Add(start, step), end, step)
          ELSE << >>)

\* float_range(start, end, step), step # 0.
RECURSIVE float_range(_, _, _)
float_range(start, end, step) ==
    IF Gt(step, Zero)
    THEN (IF Le(start, Add(end, EPSILON))
          THEN <<start>> \o float_range(Add(start, step), end, step)
          ELSE << >>)
    ELSE (IF Ge(start, Sub(end, EPSILON))
          THEN <<start>> \o float_range(Add(start, step), end, step)
          ELSE << >>)

\* round(v, 6)
Round6(v) == FormatFixed(v, 1000000)

GetVariableValues_KeepsEmpty(entry) ==
    IF entry[1] = "single" THEN <<entry[2]>>
    ELSE LET start == entry[2]
             end == entry[3]
             step == entry[4]
             values == IF Gt(step, Zero)
                       THEN float_range(start, Add(end, EPSILON), step)
                       ELSE float_range(start, Sub(end, EPSILON), step)
         IN  [k \in 1..Len(values) |-> Round6(values[k])]

\* The list get_variable_values_from_user returns for a well-formed entry:
\* <<"single", v>> or <<"range", start, end, step>> with step # 0.
GetVariableValues(entry) ==
    IF entry[1] = "single" THEN <<entry[2]>>
    ELSE LET start == entry[2]
             end == entry[3]
             step == entry[4]
             values == IF Gt(step, Zero)
                       THEN float_range(start, Add(end, EPSILON), step)
                       ELSE float_range(start, Sub(end, EPSILON), step)
         IN  IF values = << >> THEN <<start>>
             ELSE [k \in 1..Len(values) |-> Round6(values[k])]

\* list(itertools.product(*lists)): the last list varies fastest.
RECURSIVE Concat(_)
Concat(seqs) == IF seqs = << >> THEN << >> ELSE Head(seqs) \o Concat(Tail(seqs))

RECURSIVE Product(_)
Product(lists) ==
    IF lists = << >> THEN << << >> >>
    ELSE LET rest == Product(Tail(lists))
             first == Head(lists)
         IN  Concat([a \in 1..Len(first) |->
                       [b \in 1..Len(rest) |-> <<first[a]>> \o rest[b]]])

\* dict(zip(variable_names_in_order, scenario_values))
ScenarioInputs(scenario_values) ==
    [name \in {VariableNames[k] : k \in 1..NumVariables} |->
        scenario_values[CHOOSE k \in 1..NumVariables : VariableNames[k] = name]]

----------------------------------------------------------------------------
(* The single-scenario engine: run_daily_battle_simulation of biddle2.py.   *)
(* Its derivation is, line for line, that of simulate_one_scenario except   *)
(* where an operator of its own is given here.                              *)

\* "Error: Theater frontage (wth) must be positive." and an early return.
SingleRunRejected(inp) == Le(inp.wth_in, EPSILON)

\* b0 divides by wth * (d_in if d_in > EPSILON else EPSILON).
B0InitialSingle(B, fr, wa, wth, d) ==
    B0Initial(B, fr, wa, wth, IF Gt(d, EPSILON) THEN d ELSE EPSILON)

DeriveParametersSingle(inp) ==
    LET wth == inp.wth_in
        d == NormalizeD(inp.d_in)
        TR == TechIndex(inp.YR_in)
        TB == TechIndex(inp.YB_in)
        TC == DyadicBalance(TB, TR)
        T_rho == DyadicBalance(TR, TB)
        Ps == SurvivalFraction(TR, inp.k2_in, inp.Vr_in)
        H == HaltRatio(inp.k1_in, inp.fe_in)
        rho1 == Rho1(T_rho, inp.k4_in, inp.k9_in, inp.B_in, inp.fr_in, Ps)
        rho2 == Rho2(inp.k3_in, inp.B_in, inp.fr_in, wth)
        r0 == R0Initial(inp.R_in, rho2, wth, inp.wa_in)
        b0 == B0InitialSingle(inp.B_in, inp.fr_in, inp.wa_in, wth, d)
        Ca == CaStatic(inp.k7_in, inp.fe_in, TC, b0, inp.Va_in, inp.k8_in)
        delta_r == DeltaRDailyRate(Ca, rho1, inp.Va_in)
    IN  [ wth |-> wth, d |-> d, TR |-> TR, TB |-> TB, TC |-> TC,
          T_rho |-> T_rho, Ps |-> Ps, H |-> H, rho1 |-> rho1, rho2 |-> rho2,
          r0 |-> r0, b0 |-> b0, Ca |-> Ca, delta_r |-> delta_r ]

HaltConditionMetSODSingle(rt_sod, bt_sod, H) ==
    IF Le(rt_sod, Add(Mul(H, bt_sod), EPSILON)) THEN 1 ELSE 0

StopsAtStartOfDaySingle(halt_sod, Va, dayno) ==
    halt_sod = 1 \/ (Le(Va, EPSILON) /\ dayno > 0)

\* One iteration of the day loop of run_daily_battle_simulation.
DayBodySingle(dayno, s, inp, p) ==
    LET rt_sod == s.rt
        bt_sod == s.bt
        halt_sod == HaltConditionMetSODSingle(rt_sod, bt_sod, p.H)
        stop == StopsAtStartOfDaySingle(halt_sod, inp.Va_in, dayno)
        reinf == IF stop THEN Zero ELSE ReinforcementsTodaySurvived(dayno, inp, p)
        res_cas == IF stop THEN Zero ELSE DefCasReservesToday(dayno, inp, p)
        km == IF stop THEN Zero ELSE KmGainedToday(inp.Va_in)
        G == IF stop THEN s.G ELSE Add(s.G, km)
        inv_cas == IF stop THEN Zero ELSE InvCasPoaToday(p.Ca, km)
        CR == IF stop THEN s.CR ELSE Add(s.CR, inv_cas)
        def_cas_poa == IF stop THEN Zero ELSE DefCasPoaToday(p.b0, km)
        rt_eod == IF stop THEN rt_sod ELSE RtEndOfDay(rt_sod, p.delta_r)
        bt_eod == IF stop THEN bt_sod ELSE BtEndOfDay(bt_sod, reinf)
        def_cas_total == Add(def_cas_poa, res_cas)
        CB == Add(s.CB, def_cas_total)
        status_eod == BreakthroughStatusEOD(G, p.d)
        active == ~stop /\ status_eod = 0
    IN  [ rt_sod |-> rt_sod, bt_sod |-> bt_sod,
          halt_condition_met_sod |-> halt_sod,
          stopped_at_sod |-> stop,
          reinforcements_today_survived |-> reinf,
          def_cas_reserves_today |-> res_cas,
          km_gained_today |-> km,
          inv_cas_poa_today |-> inv_cas,
          def_cas_poa_today |-> def_cas_poa,
          def_cas_total_today |-> def_cas_total,
          rt_eod |-> rt_eod, bt_eod |-> bt_eod,
          rt |-> rt_eod, bt |-> bt_eod,
          G |-> G, CR |-> CR, CB |-> CB,
          breakthrough_status_eod |-> status_eod,
          simulation_active |-> active,
          current_simulation_continues_flag |-> IF active THEN 1 ELSE 0 ]

\* row: the values the record's f-strings print.  The two totals stay empty
\* unless the loop stops on this day.
SingleRunRow(dayno, b, inp) ==
    [ Day |-> dayno,
      rt_SOD |-> Fmt0(b.rt_sod), bt_SOD |-> Fmt0(b.bt_sod),
      Reinforcements_Today_Survived |-> Fmt0(b.reinforcements_today_survived),
      Km_Gained_Today |-> Fmt2(b.km_gained_today),
      Km_Gained_Cumulative |-> Fmt2(b.G),
      Inv_Cas_POA_Today |-> Fmt0(b.inv_cas_poa_today),
      Inv_Cas_POA_Cumulative_OnAxis |-> Fmt0(b.CR),
      Def_Cas_POA_Today |-> Fmt0(b.def_cas_poa_today),
      Def_Cas_Reserves_Today |-> Fmt0(b.def_cas_reserves_today),
      Def_Cas_Total_Today |-> Fmt0(b.def_cas_total_today),
      Def_Cas_Cumulative_no_k6 |-> Fmt0(b.CB),
      rt_EOD |-> Fmt0(b.rt_eod), bt_EOD |-> Fmt0(b.bt_eod),
      Breakthrough_Status_EOD |-> b.breakthrough_status_eod,
      Halt_Condition_Met_SOD |-> b.halt_condition_met_sod,
      Simulation_Continues_Next_Day |-> b.current_simulation_continues_flag,
      Final_Campaign_Inv_Cas_Total |->
          IF b.simulation_active THEN ""
          ELSE Fmt0(Add(b.CR, inp.k5_in)),
      Final_Campaign_Def_Cas_Total |->
          IF b.simulation_active THEN ""
          ELSE Fmt0(Add(b.CB, inp.k6_in)) ]

----------------------------------------------------------------------------
(* The closed form: calculate_battle_outcomes of biddle1.py *)

\* "Parameter Validation for Denominators": the function returns early.
DenominatorsRejected(v) == Le(v.wth, Zero) \/ Le(v.d, Zero)

\* YR and YB below 1900 are set to 1900 before the index is taken.
TechIndexClamped(year) ==
    Div(Sub(IF Lt(year, Q(1900)) THEN Q(1900) ELSE year, Q(1900)), Q(10))

\* TC = TB**2 / (TR + EPSILON if TR == 0 else TR); T_rho likewise.
BalanceClosedForm(num, den) ==
    Div(Mul(num, num), IF Eq(den, Zero) THEN Add(den, EPSILON) ELSE den)

\* Ps: math.pow(TR, -k2 * Vr) clamped to 1 when TR < 1 pushed it above 1.
\* TR > 0 wherever math.pow is called, so it does not raise.
PsClosedForm(TR, k2, Vr) ==
    LET exp_ps == Mul(Neg(k2), Vr)
        Ps_calculated == Pow(TR, exp_ps)
    IN  IF Eq(TR, Zero) THEN Zero
        ELSE IF Gt(Ps_calculated, One) /\ Lt(TR, One) THEN One
        ELSE IF Lt(Ps_calculated, Zero) THEN Zero
        ELSE Ps_calculated

\* The third branch calls math.pow(T_rho, k4) outside any try block.
Rho1ClosedFormRaises(T_rho, k4) ==
    /\ ~(Eq(T_rho, Zero) /\ Gt(k4, Zero))
    /\ ~(Lt(T_rho, Zero) /\ k4[2] # 1)
    /\ Ge(T_rho, Zero)
    /\ PowRaises(T_rho, k4)

Rho1ClosedForm(T_rho, k4, k9, B, fr, Ps) ==
    LET numerator == Mul(Mul(Mul(k9, B), fr), Ps)
        denominator_rho1 == IF Ge(T_rho, Zero) THEN Pow(T_rho, k4) ELSE NaN
    IN  IF Eq(T_rho, Zero) /\ Gt(k4, Zero)
        THEN (IF Gt(numerator, Zero) THEN Inf ELSE Zero)
        ELSE IF Lt(T_rho, Zero) /\ k4[2] # 1 THEN Zero
        ELSE IF Eq(denominator_rho1, Zero)
             THEN (IF Gt(numerator, Zero) THEN Inf ELSE Zero)
        ELSE Div(numerator, denominator_rho1)

\* delta_b_reinforcing and wth / Vr.
DeltaBReinforcing(B, fr, Vr, Ps, wth) ==
    IF Eq(Vr, Zero) THEN Zero ELSE Div(Mul(Mul(Mul(B, fr), Vr), Ps), wth)

WthDivVr(wth, Vr) == IF Eq(Vr, Zero) THEN Inf ELSE Div(wth, Vr)

\* A.17: the campaign duration t*.
TStar(r0, b0, H, delta_r, delta_b_reinforcing, wth_div_Vr, B, fr, Ps) ==
    LET t_star_numerator_case1 == Sub(r0, Mul(H, b0))
        t_star_denominator_case1 == Add(delta_r, Mul(H, delta_b_reinforcing))
        t_candidate1 == Div(t_star_numerator_case1, t_star_denominator_case1)
        t_star_numerator_case2 ==
            Sub(Sub(r0, Mul(H, b0)), Mul(Mul(Mul(H, B), fr), Ps))
        t_star_candidate2 == Div(t_star_numerator_case2, delta_r)
    IN  IF Eq(t_star_denominator_case1, Zero)
        THEN (IF Gt(t_star_numerator_case1, Zero) THEN Inf ELSE Zero)
        ELSE IF Lt(t_candidate1, Zero) THEN Zero
        ELSE IF Lt(t_candidate1, wth_div_Vr) THEN t_candidate1
        ELSE IF Eq(delta_r, Zero)
             THEN (IF Gt(t_star_numerator_case2, Zero) THEN Inf ELSE Zero)
        ELSE IF Ge(t_star_candidate2, Zero) THEN t_star_candidate2 ELSE Zero

\* A.18: G = t_star * Va if t_star != float('inf') else float('inf')
NetPenetrationDepth(t_star, Va) ==
    IF t_star = Inf THEN Inf ELSE Mul(t_star, Va)

\* A.19: the word printed after "Breakthrough:".
Breakthrough(G, d) ==
    IF G = Inf /\ d # Inf THEN "Yes (Infinite Penetration)"
    ELSE IF Gt(G, d) /\ G # Inf THEN "Yes"
    ELSE "No"

\* A.20: CR
InvaderCasualties(Ca, G, k5) ==
    IF G = Inf THEN Inf ELSE Add(Mul(Ca, G), k5)

CalculationRaises(v) ==
    LET TR == TechIndexClamped(v.YR)
        TB == TechIndexClamped(v.YB)
    IN  Rho1ClosedFormRaises(BalanceClosedForm(TR, TB), v.k4)

\* The calculations of calculate_battle_outcomes, from the technology
\* indices to CR, on validated inputs.
CalculateBattleOutcomes(v) ==
    LET TR == TechIndexClamped(v.YR)
        TB == TechIndexClamped(v.YB)
        TC == BalanceClosedForm(TB, TR)
        T_rho == BalanceClosedForm(TR, TB)
        Ps == PsClosedForm(TR, v.k2, v.Vr)
        H == Mul(v.k1, Sub(One, v.fe))
        rho1 == Rho1ClosedForm(T_rho, v.k4, v.k9, v.B, v.fr, Ps)
        rho2 == Div(Mul(Mul(v.k3, v.B), Sub(One, v.fr)), v.wth)
        r0 == Sub(v.R, Mul(rho2, Sub(v.wth, v.wa)))
        b0 == Div(Mul(Mul(v.B, Sub(One, v.fr)), v.wa), Mul(v.wth, v.d))
        Ca == Mul(Mul(Mul(Mul(v.k7, Sub(One, v.fe)), TC), b0), Add(v.Va, v.k8))
        delta_r == Add(Mul(Ca, v.Va), Mul(Mul(Q(2), rho1), v.Va))
        delta_b_reinforcing == DeltaBReinforcing(v.B, v.fr, v.Vr, Ps, v.wth)
        wth_div_Vr == WthDivVr(v.wth, v.Vr)
        t_star == TStar(r0, b0, H, delta_r, delta_b_reinforcing, wth_div_Vr,
                        v.B, v.fr, Ps)
        G == NetPenetrationDepth(t_star, v.Va)
    IN  [ TR |-> TR, TB |-> TB, TC |-> TC, T_rho |-> T_rho, Ps |-> Ps,
          H |-> H, rho1 |-> rho1, rho2 |-> rho2, r0 |-> r0, b0 |-> b0,
          Ca |-> Ca, delta_r |-> delta_r,
          delta_b_reinforcing |-> delta_b_reinforcing,
          t_star |-> t_star, G |-> G,
          breakthrough |-> Breakthrough(G, v.d),
          CR |-> InvaderCasualties(Ca, G, v.k5) ]

----------------------------------------------------------------------------
(* What the user enters at the prompts of biddle1.py: a battle whose        *)
(* penetration depth is exactly d (t* = 2 days at 3 km/day against d = 6), *)
(* varied in the strengths, the velocities, the depth, the years and the   *)
(* fit parameters, degenerate values included.                              *)

ClosedFormBase ==
    [ R |-> Q(204), B |-> Q(1000), YR |-> Q(1910), YB |-> Q(1910), d |-> Q(6),
      fr |-> Frac(1, 2), fe |-> Zero, Vr |-> Q(100), Va |-> Q(3),
      wa |-> Q(24), wth |-> Q(500), k1 |-> One, k2 |-> Frac(1, 100),
      k3 |-> Zero, k4 |-> One, k5 |-> Q(200), k6 |-> Q(200), k7 |-> Zero,
      k8 |-> Frac(1, 10), k9 |-> Zero ]

ClosedFormInputs ==
    { [ClosedFormBase EXCEPT !.R = r, !.Va = va, !.Vr = vr, !.d = d,
                             !.YR = yr, !.k4 = k4, !.k7 = k7, !.k9 = k9] :
        r \in {Q(4), Q(104), Q(204), Q(804)},
        va \in {Zero, Q(2), Q(3), Q(4)},
        vr \in {Zero, Q(100)},
        d \in {Zero, Q(6)},
        yr \in {Q(1890), Q(1900), Q(1910)},
        k4 \in {Neg(One), One},
        k7 \in {Zero, Q(5)},
        k9 \in {Zero, Frac(1, 100)} }

----------------------------------------------------------------------------
(* What the user enters.  The base scenario is the prompts' defaults with   *)
(* the strengths and off-axis casualties in units of 100000 men and k4 = 1  *)
(* (math.pow is modelled for integer exponents); each family varies a few  *)
(* variables around it, degenerate values included.                         *)

Single(v) == <<"single", v>>
Range(start, end, step) == <<"range", start, end, step>>

BaseValues ==
    [ R_in |-> Frac(25, 2), B_in |-> Q(10), YR_in |-> Q(1910), YB_in |-> Q(1910),
      d_in |-> Q(15), fr_in |-> Frac(2, 5), fe_in |-> Zero, Vr_in |-> Q(100),
      Va_in |-> Frac(9, 2), wa_in |-> Q(25), wth_in |-> Q(500),
      k1_in |-> Frac(5, 2), k2_in |-> Frac(1, 100), k3_in |-> Frac(2, 5),
      k4_in |-> One, k5_in |-> Q(2), k6_in |-> Q(3), k7_in |-> Q(5),
      k8_in |-> Frac(1, 10), k9_in |-> Frac(1, 100) ]

\* The 20 entries: those of f, and the base value for every other variable.
Entries(f) ==
    [k \in 1..NumVariables |->
        IF VariableNames[k] \in DOMAIN f THEN f[VariableNames[k]]
        ELSE Single(BaseValues[VariableNames[k]])]

HalfEps == Mul(Frac(1, 2), EPSILON)

AdvanceFamily ==
    { [Va_in |-> Single(va), d_in |-> Single(d), R_in |-> Single(r),
       k9_in |-> Single(Zero)] :
        va \in {Q(-1), Zero, EPSILON, Frac(9, 2), Q(15)},
        d \in {Q(-5), Zero, HalfEps, Q(15)},
        r \in {One, Frac(23, 10), Frac(25, 2)} }

DerivationFamily ==
    { [YR_in |-> Single(yr), YB_in |-> Single(yb), k4_in |-> Single(k4),
       Va_in |-> Single(va)] :
        yr \in {Q(1890), Q(1900), Q(1910)},
        yb \in {Q(1900), Q(1910)},
        k4 \in {Q(-1), Zero, One, Q(2)},
        va \in {Zero, Frac(9, 2)} }

\* A more modern attacker (TR = 2): reserves survive the move in part only.
\* A technology index so small that rho1's denominator T_rho^k4 is below
\* EPSILON: rho1 is unbounded.
UnboundedAttritionFamily ==
    { [YR_in |-> Single(Frac(3801, 2)), k4_in |-> Single(k4),
       Va_in |-> Single(va)] :
        k4 \in {One, Q(2)},
        va \in {Zero, Frac(9, 2)} }

SurvivalFamily ==
    { [YR_in |-> Single(Q(1920)), k4_in |-> Single(Zero), Vr_in |-> Single(vr),
       fr_in |-> Single(fr), R_in |-> Single(r)] :
        vr \in {Q(-100), Zero, Q(100), Q(200)},
        fr \in {Frac(2, 5), One},
        r \in {Frac(25, 2), Q(50)} }

DefenderFamily ==
    { [fr_in |-> Single(fr), wa_in |-> Single(wa), Vr_in |-> Single(vr),
       fe_in |-> Single(fe)] :
        fr \in {Zero, Frac(2, 5), One, Frac(3, 2)},
        wa \in {Q(-25), Q(25)},
        vr \in {Q(-100), Zero, Q(100), Q(200)},
        fe \in {Zero, Frac(1, 2), One} }

FrontageFamily ==
    { [wth_in |-> Single(wth), wa_in |-> Single(wa),
       k7_in |-> Single(Frac(1, 100)), k8_in |-> Single(Zero),
       k9_in |-> Single(Zero)] :
        wth \in {Q(-1), Zero, HalfEps, Q(500)},
        wa \in {Q(-25), Zero, Q(25), Q(600)} }

\* Scenarios that run to the day cap: no attrition (k7 = 0 and k9 = 0) or an
\* attrition that exhausts the attacker on the last day, and a depth out of
\* reach.
DayCapFamily ==
    { [d_in |-> Single(Q(5000)), k7_in |-> Single(Zero), k4_in |-> Single(Zero),
       k9_in |-> Single(k9), k1_in |-> Single(k1), k3_in |-> Single(Zero),
       R_in |-> Single(r)] :
        k9 \in {Zero, Frac(1, 100)},
        k1 \in {Zero},
        r \in {Q(360)} }

SweepFamily ==
    { [R_in |-> Range(Q(10), Q(12), One)],
      [R_in |-> Range(Q(10), Q(12), One), Va_in |-> Range(Q(5), Q(4), Q(-1))],
      [YR_in |-> Range(Q(1910), Q(1900), Q(-10)),
       k4_in |-> Range(One, Q(-1), Q(-1))] }

\* Range triples for one variable: steps that divide the interval and steps
\* that do not, both directions, steps that overshoot the end by 1.5 and by
\* 2.5 EPSILON, empty ranges.
ToleranceRanges ==
    { [R_in |-> Range(start, end, step)] :
        start \in {Zero, One},
        end \in {Zero, One, Q(2)},
        step \in {One, Frac(3, 10), Frac(1, 2),
                  Add(One, Mul(Frac(3, 2), EPSILON)),
                  Add(One, Mul(Frac(5, 2), EPSILON)),
                  Neg(Add(One, Mul(Frac(3, 2), EPSILON))),
                  Q(-1), Frac(-2, 5), Q(-3)} }

\* Range triples whose values have more than 6 decimals.
RoundingRanges ==
    { [R_in |-> Range(start, end, step)] :
        start \in {Zero, Frac(1234567, 10000000)},
        end \in {One, Frac(10000006, 10000000), Q(2)},
        step \in {Frac(1, 2), Frac(10000006, 10000000), Frac(-1, 2)} }

RangeEntries ==
    { Entries(f) : f \in ToleranceRanges \cup RoundingRanges
                         \cup {[R_in |-> Range(Q(1000000), Q(1200000), Q(100000))],
                               [R_in |-> Range(Q(10), Q(5), One)]} }

\* What the user enters at the twenty prompts of biddle2.py: one value per
\* variable, those of the single-valued families above.
SingleRunInputs ==
    { ScenarioInputs([k \in 1..NumVariables |-> Entries(f)[k][2]]) :
        f \in AdvanceFamily \cup DerivationFamily \cup UnboundedAttritionFamily
              \cup SurvivalFamily \cup DefenderFamily \cup FrontageFamily }

UserEntries ==
    { Entries(f) : f \in AdvanceFamily \cup DerivationFamily
                         \cup UnboundedAttritionFamily \cup SurvivalFamily
                         \cup DefenderFamily \cup FrontageFamily
                         \cup DayCapFamily \cup SweepFamily }

----------------------------------------------------------------------------
(* State *)

VARIABLES
    pc,                          \* where main() is
    user_entries,                \* what the user entered, one entry per variable
    scenario_value_lists,
    all_scenario_combinations,
    num_scenarios,
    i,                           \* index of the sweep loop (enumerate)
    scenario_id,
    inputs,                      \* current_scenario_inputs
    par,                         \* the derived parameters of the scenario
    rt_current, bt_current,
    G_cumulative, CR_cumulative_on_axis, CB_cumulative_no_k6,
    simulation_active,
    breakthrough_occurred_flag,
    halt_occurred_this_scenario_flag,
    final_day_of_simulation,
    day,
    log_len,                     \* len(daily_log_for_scenario)
    daily_row,                   \* daily_log_for_scenario[-1]
    prev_row,                    \* daily_log_for_scenario[-2]
    today,                       \* the locals of the last iteration
    final_outcomes,
    all_scenarios_final_outcomes,
    all_scenarios_daily_logs_len, \* len(all_scenarios_daily_logs)
    closed_form                  \* biddle1.py: where calculate_battle_outcomes
                                 \* is, its inputs and what it computed

sweepVars == << user_entries, scenario_value_lists, all_scenario_combinations,
                num_scenarios >>

scenarioVars == << scenario_id, inputs, par, rt_current, bt_current,
                   G_cumulative, CR_cumulative_on_axis, CB_cumulative_no_k6,
                   simulation_active, breakthrough_occurred_flag,
                   halt_occurred_this_scenario_flag, final_day_of_simulation,
                   day, log_len, daily_row, prev_row, today >>

resultVars == << final_outcomes, all_scenarios_final_outcomes,
                 all_scenarios_daily_logs_len >>

vars == << pc, i, sweepVars, scenarioVars, resultVars, closed_form >>

None == [Day |-> 0]

Init ==
    /\ pc = "read_inputs"
    /\ user_entries \in UserEntries
    /\ scenario_value_lists = << >>
    /\ all_scenario_combinations = << >>
    /\ num_scenarios = 0
    /\ i = 0
    /\ scenario_id = 0
    /\ inputs = None
    /\ par = None
    /\ rt_current = Zero
    /\ bt_current = Zero
    /\ G_cumulative = Zero
    /\ CR_cumulative_on_axis = Zero
    /\ CB_cumulative_no_k6 = Zero
    /\ simulation_active = FALSE
    /\ breakthrough_occurred_flag = 0
    /\ halt_occurred_this_scenario_flag = 0
    /\ final_day_of_simulation = 0
    /\ day = 0
    /\ log_len = 0
    /\ daily_row = None
    /\ prev_row = None
    /\ today = None
    /\ final_outcomes = None
    /\ all_scenarios_final_outcomes = << >>
    /\ all_scenarios_daily_logs_len = 0
    /\ closed_form = None

----------------------------------------------------------------------------
(* Actions *)

\* main: the prompts and the cartesian product.  Every sweep of the model is
\* far below the 10000 scenarios above which main asks for a confirmation.
ReadInputs ==
    /\ pc = "read_inputs"
    /\ LET lists == [k \in 1..NumVariables |-> GetVariableValues(user_entries[k])]
           combinations == Product(lists)
       IN  /\ scenario_value_lists' = lists
           /\ all_scenario_combinations' = combinations
           /\ num_scenarios' = Len(combinations)
           /\ pc' = IF Len(combinations) = 0 THEN "done" ELSE "sweep"
    /\ UNCHANGED << i, user_entries, scenarioVars, resultVars >>
    /\ UNCHANGED closed_form

InitialRt_KeptAcrossScenarios(r0) ==
    IF scenario_id > 0 THEN rt_current
    ELSE IF Lt(r0, Zero) THEN Zero ELSE r0

InitialRt(r0) == IF Lt(r0, Zero) THEN Zero ELSE r0

\* main calls simulate_one_scenario(i + 1, inputs): the derivation and the
\* initialisation of the daily variables.  A ValueError of the derivation is
\* caught nowhere: it ends main.
StartScenario ==
    /\ pc = "sweep"
    /\ i < num_scenarios
    /\ LET inp == ScenarioInputs(all_scenario_combinations[i + 1])
       IN  /\ scenario_id' = i + 1
           /\ inputs' = inp
           /\ IF DerivationRaises(inp)
              THEN /\ pc' = "raised"
                   /\ UNCHANGED << par, rt_current, bt_current >>
              ELSE /\ pc' = "day_loop"
                   /\ par' = DeriveParameters(inp)
                   /\ rt_current' = InitialRt(DeriveParameters(inp).r0)
                   /\ bt_current' = DeriveParameters(inp).b0
    /\ G_cumulative' = Zero
    /\ CR_cumulative_on_axis' = Zero
    /\ CB_cumulative_no_k6' = Zero
    /\ simulation_active' = TRUE
    /\ breakthrough_occurred_flag' = 0
    /\ halt_occurred_this_scenario_flag' = 0
    /\ final_day_of_simulation' = 0
    /\ day' = 1
    /\ log_len' = 0
    /\ daily_row' = None
    /\ prev_row' = None
    /\ today' = None
    /\ UNCHANGED << i, sweepVars, resultVars >>
    /\ UNCHANGED closed_form

\* One iteration of "for day in range(1, MAX_SIMULATION_DAYS + 1)".  The test
\* of simulation_active at the top of the body never succeeds: the body
\* breaks at its end as soon as simulation_active is False.
DayIteration ==
    /\ pc = "day_loop"
    /\ LET b == DayBody(day,
                        [ rt |-> rt_current, bt |-> bt_current,
                          G |-> G_cumulative, CR |-> CR_cumulative_on_axis,
                          CB |-> CB_cumulative_no_k6,
                          breakthrough |-> breakthrough_occurred_flag,
                          halt |-> halt_occurred_this_scenario_flag ],
                        inputs, par)
       IN  /\ final_day_of_simulation' = day
           /\ today' = b
           /\ rt_current' = b.rt
           /\ bt_current' = b.bt
           /\ G_cumulative' = b.G
           /\ CR_cumulative_on_axis' = b.CR
           /\ CB_cumulative_no_k6' = b.CB
           /\ breakthrough_occurred_flag' = b.breakthrough
           /\ halt_occurred_this_scenario_flag' = b.halt
           /\ simulation_active' = b.simulation_active
           /\ prev_row' = daily_row
           /\ daily_row' = DailyRow(scenario_id, day, b, par)
           /\ log_len' = log_len + 1
           /\ IF ~b.simulation_active \/ day = MAX_SIMULATION_DAYS
              THEN pc' = "after_loop" /\ day' = day
              ELSE pc' = "day_loop" /\ day' = day + 1
    /\ UNCHANGED << i, sweepVars, scenario_id, inputs, par, resultVars >>
    /\ UNCHANGED closed_form

\* The end of simulate_one_scenario (the inferred halt at the day cap, the
\* final outcome) and main's bookkeeping of what it returned.
FinishScenario ==
    /\ pc = "after_loop"
    /\ LET halt == HaltFlagAtDayCap(day, simulation_active,
                                    breakthrough_occurred_flag,
                                    halt_occurred_this_scenario_flag,
                                    rt_current, bt_current, par.H)
           outcome == FinalOutcomes(scenario_id, inputs, final_day_of_simulation,
                                    G_cumulative, CR_cumulative_on_axis,
                                    CB_cumulative_no_k6,
                                    breakthrough_occurred_flag, halt)
       IN  /\ halt_occurred_this_scenario_flag' = halt
           /\ final_outcomes' = outcome
           /\ all_scenarios_final_outcomes' =
                  Append(all_scenarios_final_outcomes, outcome)
    /\ all_scenarios_daily_logs_len' = all_scenarios_daily_logs_len + log_len
    /\ i' = i + 1
    /\ pc' = "sweep"
    /\ UNCHANGED << sweepVars, scenario_id, inputs, par, rt_current, bt_current,
                    G_cumulative, CR_cumulative_on_axis, CB_cumulative_no_k6,
                    simulation_active, breakthrough_occurred_flag,
                    final_day_of_simulation, day, log_len, daily_row, prev_row,
                    today >>
    /\ UNCHANGED closed_form

\* The sweep loop is exhausted: main writes the two CSV files and returns.
WriteOutputs ==
    /\ pc = "sweep"
    /\ i = num_scenarios
    /\ pc' = "done"
    /\ UNCHANGED << i, sweepVars, scenarioVars, resultVars >>
    /\ UNCHANGED closed_form

Next ==
    \/ ReadInputs
    \/ StartScenario
    \/ DayIteration
    \/ FinishScenario
    \/ WriteOutputs

Spec == Init /\ [][Next]_vars

\* get_variable_values_from_user and the product on their own: the user
\* enters a range triple, main expands it.
RangeInit ==
    /\ pc = "read_inputs"
    /\ user_entries \in RangeEntries
    /\ scenario_value_lists = << >>
    /\ all_scenario_combinations = << >>
    /\ num_scenarios = 0
    /\ i = 0
    /\ scenario_id = 0
    /\ inputs = None
    /\ par = None
    /\ rt_current = Zero
    /\ bt_current = Zero
    /\ G_cumulative = Zero
    /\ CR_cumulative_on_axis = Zero
    /\ CB_cumulative_no_k6 = Zero
    /\ simulation_active = FALSE
    /\ breakthrough_occurred_flag = 0
    /\ halt_occurred_this_scenario_flag = 0
    /\ final_day_of_simulation = 0
    /\ day = 0
    /\ log_len = 0
    /\ daily_row = None
    /\ prev_row = None
    /\ today = None
    /\ final_outcomes = None
    /\ all_scenarios_final_outcomes = << >>
    /\ all_scenarios_daily_logs_len = 0
    /\ closed_form = None

RangeNext == ReadInputs

RangeSpec == RangeInit /\ [][RangeNext]_vars

\* biddle1.py runs on its own: calculate_battle_outcomes has read its twenty
\* inputs; biddle3's main is not running.
ClosedFormInit ==
    /\ pc = "closed_form"
    /\ closed_form \in { [pc |-> "validate", v |-> v, out |-> None] :
                         v \in ClosedFormInputs }
    /\ user_entries = << >>
    /\ scenario_value_lists = << >>
    /\ all_scenario_combinations = << >>
    /\ num_scenarios = 0
    /\ i = 0
    /\ scenario_id = 0
    /\ inputs = None
    /\ par = None
    /\ rt_current = Zero
    /\ bt_current = Zero
    /\ G_cumulative = Zero
    /\ CR_cumulative_on_axis = Zero
    /\ CB_cumulative_no_k6 = Zero
    /\ simulation_active = FALSE
    /\ breakthrough_occurred_flag = 0
    /\ halt_occurred_this_scenario_flag = 0
    /\ final_day_of_simulation = 0
    /\ day = 0
    /\ log_len = 0
    /\ daily_row = None
    /\ prev_row = None
    /\ today = None
    /\ final_outcomes = None
    /\ all_scenarios_final_outcomes = << >>
    /\ all_scenarios_daily_logs_len = 0

\* The validation of wth and d: an error message and an early return.
ValidateDenominators ==
    /\ pc = "closed_form"
    /\ closed_form.pc = "validate"
    /\ closed_form' =
           [closed_form EXCEPT !.pc = IF DenominatorsRejected(closed_form.v)
                                      THEN "returned" ELSE "calculate"]
    /\ UNCHANGED << pc, i, sweepVars, scenarioVars, resultVars >>

\* The calculations and the printing of the outcomes.  A ValueError of
\* math.pow(T_rho, k4) is caught nowhere: it ends the program.
CalculateAndPrint ==
    /\ pc = "closed_form"
    /\ closed_form.pc = "calculate"
    /\ closed_form' =
           IF CalculationRaises(closed_form.v)
           THEN [closed_form EXCEPT !.pc = "raised"]
           ELSE [closed_form EXCEPT !.pc = "printed",
                                    !.out = CalculateBattleOutcomes(closed_form.v)]
    /\ UNCHANGED << pc, i, sweepVars, scenarioVars, resultVars >>

ClosedFormNext ==
    \/ ValidateDenominators
    \/ CalculateAndPrint

ClosedFormSpec == ClosedFormInit /\ [][ClosedFormNext]_vars

\* biddle2.py runs on its own: run_daily_battle_simulation has read its
\* twenty inputs.  Its locals carry the names of simulate_one_scenario's and
\* are kept in the same variables; final_outcomes holds
\* final_campaign_inv_cas and final_campaign_def_cas.
SingleRunInit ==
    /\ pc = "single_run"
    /\ inputs \in SingleRunInputs
    /\ user_entries = << >>
    /\ scenario_value_lists = << >>
    /\ all_scenario_combinations = << >>
    /\ num_scenarios = 0
    /\ i = 0
    /\ scenario_id = 0
    /\ par = None
    /\ rt_current = Zero
    /\ bt_current = Zero
    /\ G_cumulative = Zero
    /\ CR_cumulative_on_axis = Zero
    /\ CB_cumulative_no_k6 = Zero
    /\ simulation_active = FALSE
    /\ breakthrough_occurred_flag = 0
    /\ halt_occurred_this_scenario_flag = 0
    /\ final_day_of_simulation = 0
    /\ day = 0
    /\ log_len = 0
    /\ daily_row = None
    /\ prev_row = None
    /\ today = None
    /\ final_outcomes = None
    /\ all_scenarios_final_outcomes = << >>
    /\ all_scenarios_daily_logs_len = 0
    /\ closed_form = None

\* The validation of wth, the derivation and the initialisation of the daily
\* variables.  rt_current starts at r0_initial_calc as it is.
SingleRunStart ==
    /\ pc = "single_run"
    /\ IF SingleRunRejected(inputs)
       THEN /\ pc' = "single_returned"
            /\ UNCHANGED << par, rt_current, bt_current, simulation_active,
                            day, final_outcomes >>
       ELSE IF DerivationRaises(inputs)
       THEN /\ pc' = "single_raised"
            /\ UNCHANGED << par, rt_current, bt_current, simulation_active,
                            day, final_outcomes >>
       ELSE /\ pc' = "single_day_loop"
            /\ par' = DeriveParametersSingle(inputs)
            /\ rt_current' = DeriveParametersSingle(inputs).r0
            /\ bt_current' = DeriveParametersSingle(inputs).b0
            /\ simulation_active' = TRUE
            /\ day' = 1
            /\ final_outcomes' = [ final_campaign_inv_cas |-> Zero,
                                   final_campaign_def_cas |-> Zero ]
    /\ UNCHANGED << i, sweepVars, scenario_id, inputs, G_cumulative,
                    CR_cumulative_on_axis, CB_cumulative_no_k6,
                    breakthrough_occurred_flag,
                    halt_occurred_this_scenario_flag, final_day_of_simulation,
                    log_len, daily_row, prev_row, today,
                    all_scenarios_final_outcomes,
                    all_scenarios_daily_logs_len, closed_form >>

\* One iteration of the day loop: the row is appended, and the two campaign
\* totals are filled in when the loop stops on this day.
SingleRunDay ==
    /\ pc = "single_day_loop"
    /\ LET b == DayBodySingle(day,
                              [ rt |-> rt_current, bt |-> bt_current,
                                G |-> G_cumulative,
                                CR |-> CR_cumulative_on_axis,
                                CB |-> CB_cumulative_no_k6 ],
                              inputs, par)
       IN  /\ today' = b
           /\ rt_current' = b.rt
           /\ bt_current' = b.bt
           /\ G_cumulative' = b.G
           /\ CR_cumulative_on_axis' = b.CR
           /\ CB_cumulative_no_k6' = b.CB
           /\ simulation_active' = b.simulation_active
           /\ prev_row' = daily_row
           /\ daily_row' = SingleRunRow(day, b, inputs)
           /\ log_len' = log_len + 1
           /\ final_outcomes' =
                  IF b.simulation_active THEN final_outcomes
                  ELSE [ final_campaign_inv_cas |-> Add(b.CR, inputs.k5_in),
                         final_campaign_def_cas |-> Add(b.CB, inputs.k6_in) ]
           /\ IF ~b.simulation_active \/ day = MAX_SIMULATION_DAYS
              THEN pc' = "single_after_loop" /\ day' = day
              ELSE pc' = "single_day_loop" /\ day' = day + 1
    /\ UNCHANGED << i, sweepVars, scenario_id, inputs, par,
                    breakthrough_occurred_flag,
                    halt_occurred_this_scenario_flag, final_day_of_simulation,
                    all_scenarios_final_outcomes,
                    all_scenarios_daily_logs_len, closed_form >>

\* The rows are written to battle_simulation_daily_log.csv.
SingleRunWrite ==
    /\ pc = "single_after_loop"
    /\ pc' = "single_done"
    /\ UNCHANGED << i, sweepVars, scenarioVars, resultVars, closed_form >>

SingleRunNext ==
    \/ SingleRunStart
    \/ SingleRunDay
    \/ SingleRunWrite

SingleRunSpec == SingleRunInit /\ [][SingleRunNext]_vars

----------------------------------------------------------------------------
(* Claims *)

\* simulate_one_scenario has returned: the scenario variables hold the last
\* scenario's final values and final_outcomes is its FinalOutcome.
ScenarioFinished == pc \in {"sweep", "done"} /\ i > 0

\* C1: for every scenario input the day loop stops within MAX_SIMULATION_DAYS
\* iterations, the daily log has between 1 and 1000 records and a
\* FinalOutcome is always returned (simulate_one_scenario never ends
\* otherwise).
C1_FinalOutcomeAlwaysReturned ==
    /\ log_len <= MAX_SIMULATION_DAYS
    /\ ScenarioFinished =>
          /\ log_len >= 1
          /\ final_outcomes.Scenario_ID = scenario_id
    /\ pc # "raised"

\* C2: every FinalOutcome is classified: exactly one of breakthrough, halt,
\* or the loop ran to the day cap still running; in particular no scenario
\* stops before the day cap with both flags 0.
RanToDayCap ==
    final_outcomes.Final_Campaign_Duration_Days = MAX_SIMULATION_DAYS
    /\ simulation_active

C2_ExactlyOneClassification ==
    ScenarioFinished =>
        Cardinality({ k \in 1..3 :
            \/ k = 1 /\ final_outcomes.Breakthrough_Occurred = 1
            \/ k = 2 /\ final_outcomes.Halt_Occurred = 1
            \/ k = 3 /\ RanToDayCap }) = 1

\* C3: breakthrough overrides halt: when on the terminal day the start-of-day
\* halt condition and the breakthrough condition both hold, the FinalOutcome
\* has Breakthrough_Occurred = 1 and Halt_Occurred = 0, and no FinalOutcome
\* has both flags 1.
C3_BreakthroughOverridesHalt ==
    /\ ~(breakthrough_occurred_flag = 1 /\ halt_occurred_this_scenario_flag = 1)
    /\ ScenarioFinished =>
          /\ ~(final_outcomes.Breakthrough_Occurred = 1
               /\ final_outcomes.Halt_Occurred = 1)
          /\ (/\ today.halt_condition_met_sod = 1
              /\ Ge(G_cumulative, Sub(par.d, EPSILON)))
             => (/\ final_outcomes.Breakthrough_Occurred = 1
                 /\ final_outcomes.Halt_Occurred = 0)

C3_Witness ==
    /\ ScenarioFinished
    /\ today.halt_condition_met_sod = 1
    /\ Ge(G_cumulative, Sub(par.d, EPSILON))
    /\ final_outcomes.Breakthrough_Occurred = 1
    /\ final_outcomes.Halt_Occurred = 0

\* The strengths at the start of day 1 satisfy rt_sod <= H * bt_sod.
HaltedAtDayOne == Le(InitialRt(par.r0), Mul(par.H, par.b0))

DayOneStop ==
    /\ log_len = 1
    /\ final_outcomes.Final_Campaign_Duration_Days = 1
    /\ final_outcomes.Final_Km_Gained_Cumulative = Zero
    /\ final_outcomes.Final_Inv_Cas_POA_Cumulative_OnAxis = Zero
    /\ G_cumulative = Zero
    /\ CR_cumulative_on_axis = Zero

\* C4 as stated: if rt_sod <= H * bt_sod at day 1 the scenario halts on day 1
\* with one record, duration 1, Halt_Occurred = 1, no distance gained and no
\* on-axis casualties.
C4_Original ==
    (ScenarioFinished /\ HaltedAtDayOne) =>
        (DayOneStop /\ final_outcomes.Halt_Occurred = 1)

\* C4 as amended: the same, except that Halt_Occurred = 1 only when the depth
\* is out of reach of a zero gain (d - EPSILON > 0); otherwise the day-1
\* breakthrough check succeeds with G = 0 and overrides the halt.
C4_HaltAtDayOne ==
    (ScenarioFinished /\ HaltedAtDayOne) =>
        /\ DayOneStop
        /\ IF Gt(Sub(par.d, EPSILON), Zero)
           THEN /\ final_outcomes.Halt_Occurred = 1
                /\ final_outcomes.Breakthrough_Occurred = 0
           ELSE /\ final_outcomes.Halt_Occurred = 0
                /\ final_outcomes.Breakthrough_Occurred = 1

C4_Witness ==
    /\ ScenarioFinished
    /\ HaltedAtDayOne
    /\ Gt(par.r0, Zero)
    /\ DayOneStop
    /\ final_outcomes.Halt_Occurred = 1

\* The depth is out of reach of n days at Va a day.
OutOfReach(n) == Lt(Mul(Q(n), inputs.Va_in), Sub(par.d, EPSILON))

DefaultAdvance == inputs.Va_in = Frac(9, 2) /\ inputs.d_in = Q(15)

\* C5 as stated: breakthrough only with G >= d - EPSILON, never on a day n
\* with n * Va < d - EPSILON; for Va = 4.5 and d = 15 no earlier than day 4,
\* and on day 4 when no halt occurs on days 1 to 4.
C5_Original ==
    /\ (log_len >= 1 /\ breakthrough_occurred_flag = 1) =>
          /\ Ge(G_cumulative, Sub(par.d, EPSILON))
          /\ ~OutOfReach(final_day_of_simulation)
    /\ (ScenarioFinished /\ DefaultAdvance) =>
          /\ final_outcomes.Breakthrough_Occurred = 1 =>
                final_outcomes.Final_Campaign_Duration_Days >= 4
          /\ ~(log_len <= 4 /\ today.halt_condition_met_sod = 1) =>
                /\ final_outcomes.Breakthrough_Occurred = 1
                /\ final_outcomes.Final_Campaign_Duration_Days = 4

\* C5 as amended: breakthrough only with G >= d - EPSILON; for Va >= 0 never
\* on a day n with n * Va < d - EPSILON; for Va = 4.5 and d = 15 no earlier
\* than day 4, and on day 4 when the attacker advances on each of the days
\* 1 to 4.
C5_BreakthroughNeedsDepth ==
    /\ (log_len >= 1 /\ breakthrough_occurred_flag = 1) =>
          /\ Ge(G_cumulative, Sub(par.d, EPSILON))
          /\ Ge(inputs.Va_in, Zero) => ~OutOfReach(final_day_of_simulation)
    /\ ScenarioFinished =>
          (final_outcomes.Breakthrough_Occurred = 1 =>
              Ge(G_cumulative, Sub(par.d, EPSILON)))
    /\ (ScenarioFinished /\ DefaultAdvance) =>
          /\ final_outcomes.Breakthrough_Occurred = 1 =>
                final_outcomes.Final_Campaign_Duration_Days = 4
          /\ (log_len >= 4 /\ ~today.stopped_at_sod) =>
                /\ final_outcomes.Breakthrough_Occurred = 1
                /\ final_outcomes.Final_Campaign_Duration_Days = 4

C5_Witness ==
    /\ ScenarioFinished
    /\ DefaultAdvance
    /\ final_outcomes.Breakthrough_Occurred = 1
    /\ final_outcomes.Final_Campaign_Duration_Days = 4
    /\ Ge(G_cumulative, inputs.d_in)

\* C6: within a scenario G, CR and CB never decrease from one day to the
\* next, in the running counters and in the daily records.
C6_CumulativeCountersNeverDecrease ==
    [][ pc = "day_loop" =>
          /\ Ge(G_cumulative', G_cumulative)
          /\ Ge(CR_cumulative_on_axis', CR_cumulative_on_axis)
          /\ Ge(CB_cumulative_no_k6', CB_cumulative_no_k6)
          /\ log_len >= 1 =>
                /\ daily_row'.Day = daily_row.Day + 1
                /\ Ge(daily_row'.Km_Gained_Cumulative,
                      daily_row.Km_Gained_Cumulative)
                /\ Ge(daily_row'.Inv_Cas_POA_Cumulative_OnAxis,
                      daily_row.Inv_Cas_POA_Cumulative_OnAxis)
                /\ Ge(daily_row'.Def_Cas_Cumulative_no_k6,
                      daily_row.Def_Cas_Cumulative_no_k6) ]_vars

C6_Witness ==
    /\ log_len >= 2
    /\ daily_row.Day = prev_row.Day + 1
    /\ Gt(daily_row.Km_Gained_Cumulative, prev_row.Km_Gained_Cumulative)
    /\ Gt(daily_row.Inv_Cas_POA_Cumulative_OnAxis,
          prev_row.Inv_Cas_POA_Cumulative_OnAxis)
    /\ Gt(daily_row.Def_Cas_Cumulative_no_k6, prev_row.Def_Cas_Cumulative_no_k6)

\* C7: for every scenario input, rt_SOD, rt_EOD, bt_SOD and bt_EOD of every
\* daily record are >= 0.
C7_StrengthsNeverNegative ==
    log_len >= 1 =>
        /\ Ge(daily_row.rt_SOD, Zero)
        /\ Ge(daily_row.rt_EOD, Zero)
        /\ Ge(daily_row.bt_SOD, Zero)
        /\ Ge(daily_row.bt_EOD, Zero)

\* C8: the campaign totals of the FinalOutcome are the final cumulative
\* counters plus k5 (attacker) and k6 (defender); the counters themselves
\* grow by the day's casualties only, so the off-axis constants are added
\* once and never per day.
C8_OffAxisAddedOnce ==
    [][ /\ pc = "day_loop" =>
              /\ CR_cumulative_on_axis' =
                     Add(CR_cumulative_on_axis, today'.inv_cas_poa_today)
              /\ CB_cumulative_no_k6' =
                     Add(CB_cumulative_no_k6,
                         Add(today'.def_cas_poa_today,
                             today'.def_cas_reserves_today))
              /\ daily_row'.Inv_Cas_POA_Cumulative_OnAxis =
                     Fmt0(CR_cumulative_on_axis')
              /\ daily_row'.Def_Cas_Cumulative_no_k6 = Fmt0(CB_cumulative_no_k6')
        /\ pc = "after_loop" =>
              /\ final_outcomes'.Final_Inv_Cas_POA_Cumulative_OnAxis =
                     Fmt0(CR_cumulative_on_axis)
              /\ final_outcomes'.Final_Def_Cas_Cumulative_no_k6 =
                     Fmt0(CB_cumulative_no_k6)
              /\ final_outcomes'.Final_Campaign_Inv_Cas_Total =
                     Fmt0(Add(CR_cumulative_on_axis, inputs.k5_in))
              /\ final_outcomes'.Final_Campaign_Def_Cas_Total =
                     Fmt0(Add(CB_cumulative_no_k6, inputs.k6_in)) ]_vars

C8_Witness ==
    /\ ScenarioFinished
    /\ log_len >= 3
    /\ Gt(CR_cumulative_on_axis, Zero)
    /\ Gt(CB_cumulative_no_k6, Zero)
    /\ final_outcomes.Final_Campaign_Inv_Cas_Total =
           Fmt0(Add(CR_cumulative_on_axis, inputs.k5_in))
    /\ final_outcomes.Final_Campaign_Def_Cas_Total =
           Fmt0(Add(CB_cumulative_no_k6, inputs.k6_in))
    /\ final_outcomes.Final_Campaign_Inv_Cas_Total
           # final_outcomes.Final_Inv_Cas_POA_Cumulative_OnAxis

\* The inputs C9 calls valid.
ValidInputs(inp) ==
    /\ \A name \in {"R_in", "B_in", "wa_in", "wth_in", "Vr_in", "Va_in",
                    "k1_in", "k2_in", "k3_in", "k4_in", "k5_in", "k6_in",
                    "k7_in", "k8_in", "k9_in", "fr_in", "fe_in"} :
           Ge(inp[name], Zero)
    /\ Le(inp.fr_in, One)
    /\ Le(inp.fe_in, One)
    /\ Gt(inp.wth_in, Zero)
    /\ Gt(inp.d_in, Zero)

\* C9: for valid inputs the derivation yields Ps in [0, 1], H >= 0,
\* rho2 >= 0, Ca >= 0 and a delta_r that is finite and >= 0 or the unbounded
\* sentinel, never negative and never undefined.
C9_DerivedParametersInRange ==
    (pc = "day_loop" /\ ValidInputs(inputs)) =>
        /\ Ge(par.Ps, Zero) /\ Le(par.Ps, One)
        /\ Ge(par.H, Zero)
        /\ Ge(par.rho2, Zero)
        /\ Ge(par.Ca, Zero)
        /\ par.delta_r = Inf \/ (IsFinite(par.delta_r) /\ Ge(par.delta_r, Zero))

\* The value of variable k in the j-th tuple (j from 1) of the cartesian
\* product of the lists, the last list varying fastest.
RECURSIVE LengthsProduct(_, _)
LengthsProduct(lists, k) ==
    IF k > Len(lists) THEN 1 ELSE Len(lists[k]) * LengthsProduct(lists, k + 1)

ValueInTuple(lists, j, k) ==
    lists[k][(((j - 1) \div LengthsProduct(lists, k + 1)) % Len(lists[k])) + 1]

\* C10: when main ends, exactly n1 * ... * nk scenarios have been simulated;
\* the j-th has Scenario_ID j and the j-th tuple of the cartesian product,
\* and the final outcomes are listed once each in ascending Scenario_ID.
C10_SweepSimulatesTheProduct ==
    (pc \in {"done", "raised"}) =>
        /\ Len(all_scenarios_final_outcomes) =
               LengthsProduct(scenario_value_lists, 1)
        /\ \A j \in 1..Len(all_scenarios_final_outcomes) :
              /\ all_scenarios_final_outcomes[j].Scenario_ID = j
              /\ \A k \in 1..NumVariables :
                    all_scenarios_final_outcomes[j].inputs[VariableNames[k]] =
                        ValueInTuple(scenario_value_lists, j, k)

\* The step index of the last value start + k * step that does not pass
\* bound (k from 0), or -1 when start itself passes it.
LastStep(start, bound, step) ==
    IF Gt(step, Zero)
    THEN (IF Gt(start, bound) THEN -1 ELSE Floor(Div(Sub(bound, start), step)))
    ELSE (IF Lt(start, bound) THEN -1
          ELSE Floor(Div(Sub(start, bound), Neg(step))))

Towards(end, step, margin) ==
    IF Gt(step, Zero) THEN Add(end, margin) ELSE Sub(end, margin)

RangeEntered(v) == pc # "read_inputs" /\ user_entries[v][1] = "range"

\* C11 as stated: a range triple expands to exactly start, start + step, ...
\* as long as they do not pass end, end included when reached; no value
\* beyond end is produced.
C11_Original ==
    \A v \in 1..NumVariables :
        RangeEntered(v) =>
            LET start == user_entries[v][2]
                end == user_entries[v][3]
                step == user_entries[v][4]
                last == LastStep(start, end, step)
            IN  last >= 0 =>
                    scenario_value_lists[v] =
                        [k \in 1..(last + 1) |-> Add(start, Mul(Q(k - 1), step))]

\* C11 as amended: a range triple expands to the values start + k * step,
\* each rounded to 6 decimals, for k = 0, 1, ... as long as start + k * step
\* does not pass end by more than 2 * EPSILON (in the direction of step).
C11_RangeExpansion ==
    \A v \in 1..NumVariables :
        RangeEntered(v) =>
            LET start == user_entries[v][2]
                end == user_entries[v][3]
                step == user_entries[v][4]
                last == LastStep(start, Towards(end, step, Mul(Q(2), EPSILON)),
                                 step)
            IN  last >= 0 =>
                    scenario_value_lists[v] =
                        [k \in 1..(last + 1) |->
                            Round6(Add(start, Mul(Q(k - 1), step)))]

C11_Witness ==
    /\ RangeEntered(1)
    /\ user_entries[1] = Range(Q(1000000), Q(1200000), Q(100000))
    /\ scenario_value_lists[1] = <<Q(1000000), Q(1100000), Q(1200000)>>

\* simulate_one_scenario run on its own, from nothing but the input mapping:
\* the locals of day n of the run (n at most the run's last day), and the
\* run's last day.
RECURSIVE RunDays(_, _, _, _, _)
RunDays(dayno, upto, s, inp, p) ==
    LET b == DayBody(dayno, s, inp, p)
    IN  IF ~b.simulation_active \/ dayno = MAX_SIMULATION_DAYS \/ dayno = upto
        THEN [ final_day |-> dayno, b |-> b ]
        ELSE RunDays(dayno + 1, upto,
                     [ rt |-> b.rt, bt |-> b.bt, G |-> b.G, CR |-> b.CR,
                       CB |-> b.CB, breakthrough |-> b.breakthrough,
                       halt |-> b.halt ],
                     inp, p)

FreshRun(inp, upto) ==
    LET p == DeriveParameters(inp)
    IN  RunDays(1, upto,
                [ rt |-> IF Lt(p.r0, Zero) THEN Zero ELSE p.r0, bt |-> p.b0,
                  G |-> Zero, CR |-> Zero, CB |-> Zero,
                  breakthrough |-> 0, halt |-> 0 ],
                inp, p)

FreshOutcome(sid, inp) ==
    LET r == FreshRun(inp, MAX_SIMULATION_DAYS)
        p == DeriveParameters(inp)
    IN  FinalOutcomes(sid, inp, r.final_day, r.b.G, r.b.CR, r.b.CB,
                      r.b.breakthrough,
                      HaltFlagAtDayCap(r.final_day, r.b.simulation_active,
                                       r.b.breakthrough, r.b.halt,
                                       r.b.rt, r.b.bt, p.H))

\* C12: a scenario's daily records and FinalOutcome are those of a run of
\* simulate_one_scenario on its input mapping alone, whatever its position in
\* the sweep (of more than one scenario) and whatever was simulated before
\* it; only Scenario_ID differs.
C12_ScenarioDependsOnInputsOnly ==
    /\ (num_scenarios > 1 /\ pc \in {"day_loop", "after_loop"}
        /\ log_len >= 1) =>
          LET r == FreshRun(inputs, log_len)
          IN  /\ r.final_day = log_len
              /\ daily_row =
                     DailyRow(scenario_id, log_len, r.b, DeriveParameters(inputs))
              /\ (pc = "day_loop") = (r.b.simulation_active
                                      /\ log_len < MAX_SIMULATION_DAYS)
    /\ (num_scenarios > 1 /\ ScenarioFinished) =>
          /\ log_len = FreshRun(inputs, MAX_SIMULATION_DAYS).final_day
          /\ final_outcomes = FreshOutcome(scenario_id, inputs)
          /\ \A j \in 1..Len(all_scenarios_final_outcomes) :
                all_scenarios_final_outcomes[j] =
                    FreshOutcome(j, all_scenarios_final_outcomes[j].inputs)

C12_Witness ==
    /\ pc = "done"
    /\ Len(all_scenarios_final_outcomes) = 6
    /\ final_outcomes = FreshOutcome(6, inputs)
    /\ \E j \in 1..5 :
          all_scenarios_final_outcomes[j].Final_Campaign_Duration_Days
              # final_outcomes.Final_Campaign_Duration_Days

\* C13: a range triple whose expansion is empty contributes the single start
\* value; every variable contributes at least one value and the sweep has at
\* least one scenario.
C13_EmptyRangeCollapsesToStart ==
    pc # "read_inputs" =>
        /\ \A v \in 1..NumVariables :
              /\ Len(scenario_value_lists[v]) >= 1
              /\ (/\ user_entries[v][1] = "range"
                  /\ LastStep(user_entries[v][2],
                              Towards(user_entries[v][3], user_entries[v][4],
                                      Mul(Q(2), EPSILON)),
                              user_entries[v][4]) < 0)
                 => scenario_value_lists[v] = <<user_entries[v][2]>>
        /\ num_scenarios >= 1
        /\ Len(all_scenario_combinations) = num_scenarios
        /\ pc = "sweep"

C13_Witness ==
    /\ pc = "sweep"
    /\ user_entries[1] = Range(Q(10), Q(5), One)
    /\ scenario_value_lists[1] = <<Q(10)>>
    /\ num_scenarios = 1

\* The engine stops in step 1 of the day that starts in the current state.
StopsInStepOne ==
    \/ Le(rt_current, Add(Mul(par.H, bt_current), EPSILON))
    \/ Lt(rt_current, EPSILON)
    \/ Le(inputs.Va_in, EPSILON)
    \/ par.delta_r = Inf

\* C14: on a day on which the engine stops in step 1 nothing advances: the
\* strengths are frozen, today's reinforcement, distance and casualties are
\* 0, G, CR and CB keep the previous day's values, and the day's record is
\* appended and is the last of the scenario.
C14_StopDayChangesNothing ==
    [][ (pc = "day_loop" /\ StopsInStepOne) =>
          /\ rt_current' = rt_current /\ bt_current' = bt_current
          /\ today'.rt_sod = rt_current /\ today'.rt_eod = rt_current
          /\ today'.bt_sod = bt_current /\ today'.bt_eod = bt_current
          /\ today'.reinforcements_today_survived = Zero
          /\ today'.km_gained_today = Zero
          /\ today'.inv_cas_poa_today = Zero
          /\ today'.def_cas_poa_today = Zero
          /\ today'.def_cas_reserves_today = Zero
          /\ today'.def_cas_total_today = Zero
          /\ G_cumulative' = G_cumulative
          /\ CR_cumulative_on_axis' = CR_cumulative_on_axis
          /\ CB_cumulative_no_k6' = CB_cumulative_no_k6
          /\ log_len' = log_len + 1
          /\ daily_row'.Day = day
          /\ daily_row'.rt_EOD = daily_row'.rt_SOD
          /\ daily_row'.bt_EOD = daily_row'.bt_SOD
          /\ daily_row'.Reinforcements_Today_Survived = Zero
          /\ daily_row'.Km_Gained_Today = Zero
          /\ daily_row'.Inv_Cas_POA_Today = Zero
          /\ daily_row'.Def_Cas_Total_Today = Zero
          /\ log_len >= 1 =>
                /\ daily_row'.Km_Gained_Cumulative = daily_row.Km_Gained_Cumulative
                /\ daily_row'.Inv_Cas_POA_Cumulative_OnAxis =
                       daily_row.Inv_Cas_POA_Cumulative_OnAxis
                /\ daily_row'.Def_Cas_Cumulative_no_k6 =
                       daily_row.Def_Cas_Cumulative_no_k6
          /\ daily_row'.Simulation_Continues_Next_Day = 0
          /\ pc' = "after_loop" ]_vars

C14_Witness ==
    /\ pc = "after_loop"
    /\ log_len >= 2
    /\ today.stopped_at_sod
    /\ today.halt_condition_met_sod = 1
    /\ Gt(G_cumulative, Zero)
    /\ daily_row.Km_Gained_Today = Zero
    /\ daily_row.Km_Gained_Cumulative = prev_row.Km_Gained_Cumulative
    /\ daily_row.rt_EOD = daily_row.rt_SOD

\* The surviving reinforcement of an advance day: the fully elapsed days
\* (dayno - 1) are inside the window wth / Vr, which never closes when
\* Vr <= EPSILON.
WindowOpen(dayno) ==
    \/ Le(inputs.Vr_in, EPSILON)
    \/ Lt(Mul(Q(dayno - 1), inputs.Vr_in), par.wth)

ExpectedReinforcement(dayno) ==
    IF WindowOpen(dayno)
    THEN Mul(Mul(inputs.B_in, inputs.fr_in),
             Div(Mul(inputs.Vr_in, par.Ps), par.wth))
    ELSE Zero

\* C15: on every advance day bt_EOD = bt_SOD + today's surviving
\* reinforcement, B*fr*Vr*Ps/wth inside the window and 0 after it; the
\* defender's casualties do not reduce bt.
C15_ReinforcementOnlyChangesBt ==
    [][ (pc = "day_loop" /\ ~StopsInStepOne) =>
          /\ today'.reinforcements_today_survived = ExpectedReinforcement(day)
          /\ today'.bt_sod = bt_current
          /\ today'.bt_eod = Add(bt_current, ExpectedReinforcement(day))
          /\ bt_current' = today'.bt_eod
          /\ daily_row'.bt_SOD = Fmt0(bt_current)
          /\ daily_row'.bt_EOD = Fmt0(bt_current')
          /\ daily_row'.Reinforcements_Today_Survived =
                 Fmt0(ExpectedReinforcement(day)) ]_vars

\* An advance day after the window has closed, with defender casualties at
\* the point of attack, in a scenario that was reinforced before.
C15_Witness ==
    /\ log_len >= 2
    /\ ~today.stopped_at_sod
    /\ today.reinforcements_today_survived = Zero
    /\ Gt(today.def_cas_poa_today, Zero)
    /\ today.bt_eod = today.bt_sod
    /\ Gt(today.bt_sod, par.b0)

\* What C16 says of one iteration of the day loop, given the defender's
\* point-of-attack casualties of an advance day.
AllOrNothingDay(def_cas_poa) ==
    /\ today'.km_gained_today \in {Zero, inputs.Va_in}
    /\ (today'.km_gained_today = inputs.Va_in /\ inputs.Va_in # Zero)
           <=> ~StopsInStepOne
    /\ ~StopsInStepOne =>
          /\ G_cumulative' = Add(G_cumulative, inputs.Va_in)
          /\ today'.inv_cas_poa_today = Mul(par.Ca, inputs.Va_in)
          /\ CR_cumulative_on_axis' =
                 Add(CR_cumulative_on_axis, Mul(par.Ca, inputs.Va_in))
          /\ today'.def_cas_poa_today = def_cas_poa
          /\ today'.rt_eod = Max2(Zero, Sub(rt_current, par.delta_r))
          /\ rt_current' = today'.rt_eod
    /\ CR_cumulative_on_axis' = Mul(par.Ca, G_cumulative')
    /\ G_cumulative' =
           Mul(inputs.Va_in,
               Q(IF today'.stopped_at_sod THEN log_len ELSE log_len + 1))

\* C16 as stated: km gained is 0 or exactly Va; an advance day adds Va to G,
\* Ca * Va to the attacker's on-axis casualties, b0 * Va (initial b0) to the
\* defender's point-of-attack casualties, and rt_EOD = max(0, rt_SOD -
\* delta_r); so CR = Ca * G and G = Va * (number of advance days).
C16_Original ==
    [][ pc = "day_loop" => AllOrNothingDay(Mul(par.b0, inputs.Va_in)) ]_vars

\* C16 as amended: the same, with the defender's point-of-attack casualties
\* of an advance day max(0, b0 * Va).
C16_AdvanceIsAllOrNothing ==
    [][ pc = "day_loop" =>
          AllOrNothingDay(Max2(Zero, Mul(par.b0, inputs.Va_in))) ]_vars

\* An advance day after the defender was reinforced, with casualties on both
\* sides and the attacker clamped at 0.
C16_Witness ==
    /\ log_len >= 2
    /\ ~today.stopped_at_sod
    /\ today.bt_sod # par.b0
    /\ Gt(today.def_cas_poa_today, Zero)
    /\ Gt(CR_cumulative_on_axis, Zero)
    /\ CR_cumulative_on_axis = Mul(par.Ca, G_cumulative)
    /\ G_cumulative = Mul(inputs.Va_in, Q(log_len))

\* The loop completed day MAX_SIMULATION_DAYS while still running.
CompletedDayCapRunning ==
    ScenarioFinished /\ log_len = MAX_SIMULATION_DAYS /\ simulation_active

\* C17: a scenario that completes day 1000 still running has duration 1000
\* and Breakthrough_Occurred = 0, and Halt_Occurred = 1 exactly when the
\* end-of-day-1000 strengths satisfy rt <= H * bt + EPSILON or rt < EPSILON.
C17_DayCapInfersHalt ==
    CompletedDayCapRunning =>
        /\ final_outcomes.Final_Campaign_Duration_Days = 1000
        /\ final_outcomes.Breakthrough_Occurred = 0
        /\ final_outcomes.Halt_Occurred =
               IF \/ Le(today.rt_eod, Add(Mul(par.H, today.bt_eod), EPSILON))
                  \/ Lt(today.rt_eod, EPSILON)
               THEN 1 ELSE 0
        /\ today.halt_condition_met_sod = 0
        /\ daily_row.Day = 1000

C17_Witness ==
    /\ CompletedDayCapRunning
    /\ Lt(today.rt_eod, EPSILON)
    /\ Gt(today.rt_sod, EPSILON)
    /\ final_outcomes.Halt_Occurred = 1
    /\ final_outcomes.Final_Campaign_Duration_Days = 1000

\* C18: before any derived parameter is computed every wth <= EPSILON and
\* every d <= EPSILON is replaced by exactly EPSILON, so the denominators wth
\* and wth * d of the derivation are never below their EPSILON-scaled floor.
C18_SmallFrontageAndDepthBecomeEpsilon ==
    par # None =>
        /\ Le(inputs.wth_in, EPSILON) => par.wth = EPSILON
        /\ Le(inputs.d_in, EPSILON) => par.d = EPSILON
        /\ Ge(par.wth, EPSILON)
        /\ Ge(par.d, EPSILON)
        /\ Ge(Mul(par.wth, par.d), Mul(EPSILON, EPSILON))

\* The loop of the scenario stopped by a halt or by a breakthrough (it did not
\* run out of days).
StoppedByHaltOrBreakthrough ==
    /\ ScenarioFinished
    /\ ~simulation_active
    /\ \/ final_outcomes.Breakthrough_Occurred = 1
       \/ final_outcomes.Halt_Occurred = 1

\* C19 (the records): the k-th record of a scenario carries Day = k, the
\* record before the last carries Simulation_Continues_Next_Day = 1, the
\* duration reported is the number of records, and the last record of a
\* scenario that stopped by halt or breakthrough carries the flag 0.
C19_RecordsOfAScenario ==
    /\ daily_row # None =>
           /\ log_len >= 1
           /\ daily_row.Day = log_len
           /\ daily_row.Scenario_ID = scenario_id
    /\ daily_row = None => log_len = 0
    /\ prev_row # None =>
           /\ daily_row # None
           /\ prev_row.Day = daily_row.Day - 1
           /\ prev_row.Simulation_Continues_Next_Day = 1
    /\ (daily_row # None /\ prev_row = None) => log_len = 1
    /\ ScenarioFinished =>
           /\ log_len >= 1
           /\ final_outcomes.Final_Campaign_Duration_Days = log_len
    /\ StoppedByHaltOrBreakthrough =>
           daily_row.Simulation_Continues_Next_Day = 0

\* C19 (the appends): every simulated day appends exactly one record, and no
\* record is ever appended after a record whose flag is 0.
C19_OneRecordPerDay ==
    [][ /\ (pc = "day_loop" /\ pc' \in {"day_loop", "after_loop"}) =>
            /\ log_len' = log_len + 1
            /\ daily_row'.Day = day
            /\ prev_row' = daily_row
            /\ daily_row # None =>
                   daily_row.Simulation_Continues_Next_Day = 1
        /\ log_len' # log_len =>
            \/ pc = "day_loop"
            \/ (pc = "sweep" /\ log_len' = 0) ]_vars

C19_OneRecordPerDayAndFlagOnce ==
    /\ []C19_RecordsOfAScenario
    /\ C19_OneRecordPerDay

C19_Witness ==
    /\ StoppedByHaltOrBreakthrough
    /\ log_len >= 3
    /\ prev_row.Day = log_len - 1
    /\ prev_row.Simulation_Continues_Next_Day = 1
    /\ daily_row.Simulation_Continues_Next_Day = 0
    /\ final_outcomes.Final_Campaign_Duration_Days = log_len

\* calculate_battle_outcomes has printed its outcomes.
OutcomesPrinted == pc = "closed_form" /\ closed_form.pc = "printed"

\* C20: the closed form reports a breakthrough exactly when G = t_star * Va
\* meets or exceeds the depth d, G = d and an infinite G included.
C20_BreakthroughWhenDepthIsMet ==
    OutcomesPrinted =>
        (closed_form.out.breakthrough \in {"Yes", "Yes (Infinite Penetration)"}
            <=> Ge(closed_form.out.G, closed_form.v.d))

\* The reserve B * fr and the part of it that survives the movement.
ReservePool == Mul(inputs.B_in, inputs.fr_in)
SurvivingReservePool == Mul(ReservePool, par.Ps)

\* Valid inputs of a scenario whose reserves move.
ValidReserveInputs ==
    /\ par # None
    /\ ValidInputs(inputs)
    /\ Gt(inputs.Vr_in, Zero)
    /\ Ge(par.Ps, Zero) /\ Le(par.Ps, One)

\* C21: for valid inputs the reinforcements that arrive over a scenario
\* never exceed the surviving reserve pool B * fr * Ps, that is bt never
\* exceeds b0 + B * fr * Ps, and the reinforcements and reserve casualties
\* of a day never exceed the reserve B * fr, whatever the ratio wth / Vr.
C21_ReservePoolConserved ==
    (ValidReserveInputs /\ today # None) =>
        /\ Le(bt_current, Add(par.b0, SurvivingReservePool))
        /\ Le(Sub(bt_current, par.b0), SurvivingReservePool)
        /\ Le(Add(today.reinforcements_today_survived,
                  today.def_cas_reserves_today), ReservePool)

\* The fields of a daily record that the two engines are compared on.
ComparedFields ==
    { "Day", "rt_SOD", "bt_SOD", "rt_EOD", "bt_EOD", "Km_Gained_Today",
      "Km_Gained_Cumulative", "Inv_Cas_POA_Cumulative_OnAxis",
      "Def_Cas_Cumulative_no_k6", "Halt_Condition_Met_SOD",
      "Simulation_Continues_Next_Day" }

\* run_daily_battle_simulation has appended at least one row.
SingleRunHasRows ==
    /\ pc \in {"single_day_loop", "single_after_loop", "single_done"}
    /\ log_len >= 1

\* The record simulate_one_scenario appends on day log_len for the same
\* inputs (its last record, if its loop stops before that day).
SweepEngineRun == FreshRun(inputs, log_len)
SweepEngineRow ==
    DailyRow(1, SweepEngineRun.final_day, SweepEngineRun.b,
             DeriveParameters(inputs))

\* C22: on the same inputs (wth > EPSILON) the row that
\* run_daily_battle_simulation appends on a day is the record that
\* simulate_one_scenario appends on that day (same strengths, km gained,
\* cumulative G, CR and CB, halt flag and continue flag, hence the same
\* number of days), and the final casualty totals are the same.
C22_EnginesAgree ==
    SingleRunHasRows =>
        /\ SweepEngineRun.final_day = log_len
        /\ \A f \in ComparedFields : SweepEngineRow[f] = daily_row[f]
        /\ ~simulation_active =>
               /\ daily_row.Final_Campaign_Inv_Cas_Total =
                      FreshOutcome(1, inputs).Final_Campaign_Inv_Cas_Total
               /\ daily_row.Final_Campaign_Def_Cas_Total =
                      FreshOutcome(1, inputs).Final_Campaign_Def_Cas_Total

============================================================================
